---- MODULE Spec2Model ----
(***************************************************************************)
(* Frame geometry of v_frame: the two constructors of Frame<T>             *)
(* (src/src/frame.rs), new_with_padding and new_zerocopy.                  *)
(*                                                                         *)
(* A plane is a record of its configuration (width, height, decimation,    *)
(* padding) and, for a plane that wraps a caller's slice, the number of    *)
(* samples of that slice.  usize arithmetic is modelled at a word of       *)
(* UsizeBits bits; whether an overflow panics or wraps depends on the      *)
(* build profile (overflow_checks).                                        *)
(***************************************************************************)
EXTENDS Integers, Naturals, Sequences, FiniteSets, TLC

\* ---------------------------------------------------------------- bounds
UsizeBits == 7
MaxDim == 8
MaxPad == 3
MaxLen == 4

RECURSIVE Pow2(_)
Pow2(n) == IF n = 0 THEN 1 ELSE 2 * Pow2(n - 1)

UsizeRange == Pow2(UsizeBits)

\* the picture sizes and paddings the constructors are called with
AllocDims == (0..MaxDim) \cup {100}
Paddings == (0..MaxPad) \cup {32}
Dims == 0..MaxDim
Lens == 0..MaxLen

\* ------------------------------------------------- collaborators (contract)
ChromaSampling == {"Cs420", "Cs422", "Cs444", "Cs400"}

\* size_of::<T>() of the Pixel types u8 and u16
PixelSizes == {1, 2}

None == [some |-> FALSE, val |-> <<0, 0>>]
Some(v) == [some |-> TRUE, val |-> v]

unwrap_or(opt, default) == IF opt.some THEN opt.val ELSE default

get_decimation(cs) ==
  CASE cs = "Cs420" -> Some(<<1, 1>>)
    [] cs = "Cs422" -> Some(<<1, 0>>)
    [] cs = "Cs444" -> Some(<<0, 0>>)
    [] cs = "Cs400" -> None

shr(x, n) == x \div Pow2(n)

get_chroma_dimensions(cs, luma_width, luma_height) ==
  LET d == get_decimation(cs)
  IN  IF d.some
        THEN <<shr(luma_width + d.val[1], d.val[1]),
               shr(luma_height + d.val[2], d.val[2])>>
        ELSE <<0, 0>>

align_power_of_two(x, n) == ((x + (Pow2(n) - 1)) \div Pow2(n)) * Pow2(n)

Plane_new(w, h, xdec, ydec, xpad, ypad) ==
  [width |-> w, height |-> h, xdec |-> xdec, ydec |-> ydec,
   xpad |-> xpad, ypad |-> ypad, borrowed |-> FALSE, slice_len |-> 0]

\* data_len is the length in samples of the slice handed over
Plane_from_slice_zerocopy(data_len, stride) ==
  [width |-> stride,
   height |-> IF stride = 0 THEN 0 ELSE data_len \div stride,
   xdec |-> 0, ydec |-> 0, xpad |-> 0, ypad |-> 0,
   borrowed |-> TRUE, slice_len |-> data_len]

\* ------------------------------------------------------ usize arithmetic
wrapping_mul(a, b) == (a * b) % UsizeRange
mul_overflows(a, b) == a * b >= UsizeRange

\* a * b * c, evaluated left to right
mul3(a, b, c) == wrapping_mul(wrapping_mul(a, b), c)
mul3_overflows(a, b, c) ==
  mul_overflows(a, b) \/ mul_overflows(wrapping_mul(a, b), c)

\* ------------------------------------------------------- new_with_padding
luma_dim_unaligned(requested) == requested
luma_dim(requested) == align_power_of_two(requested, 3)

chroma_decimation_halved(cs) == unwrap_or(get_decimation(cs), <<1, 1>>)
chroma_decimation(cs) == unwrap_or(get_decimation(cs), <<0, 0>>)

chroma_padding_unshifted(luma_padding, dec) == <<luma_padding, luma_padding>>
chroma_padding(luma_padding, dec) ==
  <<shr(luma_padding, dec[1]), shr(luma_padding, dec[2])>>

new_with_padding_requested_chroma(w, h, cs, luma_padding) ==
  LET luma_width == luma_dim(w)
      luma_height == luma_dim(h)
      dec == chroma_decimation(cs)
      cdim == get_chroma_dimensions(cs, w, h)
      cpad == chroma_padding(luma_padding, dec)
  IN  << Plane_new(luma_width, luma_height, 0, 0, luma_padding, luma_padding),
         Plane_new(cdim[1], cdim[2], dec[1], dec[2], cpad[1], cpad[2]),
         Plane_new(cdim[1], cdim[2], dec[1], dec[2], cpad[1], cpad[2]) >>
new_with_padding(w, h, cs, luma_padding) ==
  LET luma_width == luma_dim(w)
      luma_height == luma_dim(h)
      dec == chroma_decimation(cs)
      cdim == get_chroma_dimensions(cs, luma_width, luma_height)
      cpad == chroma_padding(luma_padding, dec)
  IN  << Plane_new(luma_width, luma_height, 0, 0, luma_padding, luma_padding),
         Plane_new(cdim[1], cdim[2], dec[1], dec[2], cpad[1], cpad[2]),
         Plane_new(cdim[1], cdim[2], dec[1], dec[2], cpad[1], cpad[2]) >>

\* ----------------------------------------------------------- new_zerocopy
\* transmute::<&[u8], &[T]> keeps the slice's length field: a slice of n
\* bytes becomes a slice of n samples
transmute(byte_len, size) == byte_len

\* assert!(len == w * h * size_of::<T>()): TRUE when execution goes on.
\* With overflow checks the multiplication itself panics on overflow.
size_assert(len, w, h, size, checks) ==
  /\ ~(checks /\ mul3_overflows(w, h, size))
  /\ len = mul3(w, h, size)

monochrome_never(cs) == FALSE
monochrome(cs) == cs = "Cs400"

chroma_asserts_first_only(d, cw, ch, size, checks) ==
  size_assert(d[2], cw, ch, size, checks)
chroma_asserts(d, cw, ch, size, checks) ==
  /\ size_assert(d[2], cw, ch, size, checks)
  /\ size_assert(d[3], cw, ch, size, checks)

Panic == [panicked |-> TRUE, planes |-> <<>>]
Returned(p) == [panicked |-> FALSE, planes |-> p]

new_zerocopy(d, w, h, cs, size, checks) ==
  LET luma_width == w
      luma_height == h
      cdim == get_chroma_dimensions(cs, luma_width, luma_height)
  IN  IF ~size_assert(d[1], luma_width, luma_height, size, checks)
        THEN Panic
      ELSE IF monochrome(cs)
        THEN Returned(<< Plane_from_slice_zerocopy(transmute(d[1], size), luma_width),
                         Plane_new(0, 0, 0, 0, 0, 0),
                         Plane_new(0, 0, 0, 0, 0, 0) >>)
      ELSE IF ~chroma_asserts(d, cdim[1], cdim[2], size, checks)
        THEN Panic
      ELSE Returned(<< Plane_from_slice_zerocopy(transmute(d[1], size), luma_width),
                       Plane_from_slice_zerocopy(transmute(d[2], size), cdim[1]),
                       Plane_from_slice_zerocopy(transmute(d[3], size), cdim[1]) >>)

\* ------------------------------------------------------------------ state
VARIABLES
  op,               \* the constructor that was called, "none" before the call
  width, height,    \* its arguments
  chroma_sampling,
  luma_padding,     \* new_with_padding only
  data,             \* new_zerocopy only: byte lengths of the three buffers
  sample_size,      \* size_of::<T>()
  overflow_checks,  \* build profile: overflow panics (TRUE) or wraps (FALSE)
  outcome,          \* "none", "ok" (a Frame was returned) or "panic"
  planes            \* Frame.planes of the returned Frame, <<>> otherwise

vars == <<op, width, height, chroma_sampling, luma_padding, data, sample_size,
          overflow_checks, outcome, planes>>

Init ==
  /\ op = "none"
  /\ width = 0 /\ height = 0
  /\ chroma_sampling = "Cs420"
  /\ luma_padding = 0
  /\ data = <<0, 0, 0>>
  /\ sample_size = 1
  /\ overflow_checks = TRUE
  /\ outcome = "none"
  /\ planes = <<>>

NewWithPadding ==
  /\ op = "none"
  /\ \E w \in AllocDims, h \in AllocDims, cs \in ChromaSampling,
        pad \in Paddings, size \in PixelSizes :
       /\ op' = "new_with_padding"
       /\ width' = w /\ height' = h
       /\ chroma_sampling' = cs
       /\ luma_padding' = pad
       /\ sample_size' = size
       /\ outcome' = "ok"
       /\ planes' = new_with_padding(w, h, cs, pad)
  /\ UNCHANGED <<data, overflow_checks>>

NewZerocopy ==
  /\ op = "none"
  /\ \E d \in [1..3 -> Lens], w \in Dims, h \in Dims, cs \in ChromaSampling,
        size \in PixelSizes, checks \in BOOLEAN :
       LET r == new_zerocopy(d, w, h, cs, size, checks)
       IN  /\ op' = "new_zerocopy"
           /\ data' = d
           /\ width' = w /\ height' = h
           /\ chroma_sampling' = cs
           /\ sample_size' = size
           /\ overflow_checks' = checks
           /\ outcome' = IF r.panicked THEN "panic" ELSE "ok"
           /\ planes' = r.planes
  /\ UNCHANGED luma_padding

Next == NewWithPadding \/ NewZerocopy

Spec == Init /\ [][Next]_vars

\* ------------------------------------------------------------- properties
\* the geometry of a plane: what the plane reports about itself
Geometry(p) == <<p.width, p.height, p.xdec, p.ydec, p.xpad, p.ypad>>

SmallestMultipleOf8(n) ==
  CHOOSE m \in 0..(n + 8) :
    /\ m % 8 = 0 /\ m >= n
    /\ \A k \in 0..(n + 8) : (k % 8 = 0 /\ k >= n) => m <= k

HalfRoundedUp(n) == (n + 1) \div 2

Allocated == op = "new_with_padding" /\ outcome = "ok"
Zerocopy == op = "new_zerocopy"

\* the products of the size checks, over the unbounded integers
LumaBytes == width * height * sample_size
ChromaBytes ==
  LET cdim == get_chroma_dimensions(chroma_sampling, width, height)
  IN  cdim[1] * cdim[2] * sample_size

\* C1: for a non-monochrome format the luma plane of new_with_padding has
\* width and height equal to the smallest multiple of 8 that is >= the
\* requested value, decimation (0,0) and padding (luma_padding, luma_padding).
C1_LumaAligned ==
  (Allocated /\ chroma_sampling # "Cs400") =>
    /\ planes[1].width = SmallestMultipleOf8(width)
    /\ planes[1].height = SmallestMultipleOf8(height)
    /\ planes[1].xdec = 0 /\ planes[1].ydec = 0
    /\ planes[1].xpad = luma_padding /\ planes[1].ypad = luma_padding

C1_Witness ==
  /\ Allocated /\ chroma_sampling = "Cs422"
  /\ width = 3 /\ height = 100 /\ luma_padding = 2
  /\ planes[1].width = 8 /\ planes[1].height = 104

\* C2 (as stated): for Cs400 the chroma planes of new_with_padding have zero
\* width and height and zero padding on both axes, for every luma_padding.
C2_MonoChromaPaddingZero ==
  (Allocated /\ chroma_sampling = "Cs400") =>
    \A i \in {2, 3} :
      /\ planes[i].width = 0 /\ planes[i].height = 0
      /\ planes[i].xpad = 0 /\ planes[i].ypad = 0

\* C2 (amended): for Cs400 the chroma planes of new_with_padding have zero
\* width and height, and their padding is luma_padding on both axes (the
\* decimation exponents default to (0,0)), so it is zero only when
\* luma_padding is zero.
C2_MonoChromaPaddingIsLuma ==
  (Allocated /\ chroma_sampling = "Cs400") =>
    \A i \in {2, 3} :
      /\ planes[i].width = 0 /\ planes[i].height = 0
      /\ planes[i].xdec = 0 /\ planes[i].ydec = 0
      /\ planes[i].xpad = luma_padding /\ planes[i].ypad = luma_padding

C2_Witness ==
  /\ Allocated /\ chroma_sampling = "Cs400"
  /\ width = 100 /\ height = 5 /\ luma_padding = 32
  /\ planes[2].width = 0 /\ planes[2].xpad = 32 /\ planes[3].ypad = 32

\* C3: for every format the chroma padding of new_with_padding is
\* luma_padding >> horizontal decimation on x and luma_padding >> vertical
\* decimation on y, the same pair for both chroma planes.
C3_ChromaPaddingShifted ==
  Allocated =>
    /\ \A i \in {2, 3} :
         /\ planes[i].xpad = luma_padding \div Pow2(planes[i].xdec)
         /\ planes[i].ypad = luma_padding \div Pow2(planes[i].ydec)
    /\ <<planes[2].xpad, planes[2].ypad>> = <<planes[3].xpad, planes[3].ypad>>

C3_Witness ==
  /\ Allocated /\ chroma_sampling = "Cs422" /\ luma_padding = 3
  /\ planes[2].xpad = 1 /\ planes[2].ypad = 3

\* C4: the chroma dimensions of new_with_padding come from the 8-aligned luma
\* dimensions: for 4:4:4 they equal the luma plane's, for 4:2:0 each is half
\* (rounded up) of the aligned luma dimension; 100x100, 4:2:0, padding 32
\* gives luma 104x104 padded 32/32 and two chroma planes 52x52 padded 16/16.
C4_ChromaFromAlignedLuma ==
  Allocated =>
    /\ chroma_sampling = "Cs444" =>
         \A i \in {2, 3} :
           /\ planes[i].width = planes[1].width
           /\ planes[i].height = planes[1].height
           /\ planes[i].width = SmallestMultipleOf8(width)
           /\ planes[i].height = SmallestMultipleOf8(height)
    /\ chroma_sampling = "Cs420" =>
         \A i \in {2, 3} :
           /\ planes[i].width = HalfRoundedUp(SmallestMultipleOf8(width))
           /\ planes[i].height = HalfRoundedUp(SmallestMultipleOf8(height))
    /\ (width = 100 /\ height = 100 /\ chroma_sampling = "Cs420"
          /\ luma_padding = 32) =>
         /\ Geometry(planes[1]) = <<104, 104, 0, 0, 32, 32>>
         /\ Geometry(planes[2]) = <<52, 52, 1, 1, 16, 16>>
         /\ Geometry(planes[3]) = <<52, 52, 1, 1, 16, 16>>

C4_Witness ==
  /\ Allocated /\ width = 100 /\ height = 100
  /\ chroma_sampling = "Cs420" /\ luma_padding = 32
  /\ planes[2].width = 52

\* C5: new_zerocopy with a luma buffer of exactly width * height *
\* sample_bytes bytes (and valid chroma buffers) succeeds, and the luma plane
\* of the Frame reports the given width and the given height.
C5_ZerocopyLumaReportsSize ==
  (/\ Zerocopy
   /\ data[1] = LumaBytes
   /\ (chroma_sampling # "Cs400" => data[2] = ChromaBytes /\ data[3] = ChromaBytes))
  => /\ outcome = "ok"
     /\ planes[1].width = width
     /\ planes[1].height = height

\* C6: for a non-monochrome format new_zerocopy returns a Frame if and only
\* if the luma length is width * height * sample_bytes and both chroma lengths
\* are chroma_width * chroma_height * sample_bytes (chroma dimensions from the
\* unaligned width and height); any other length panics.
C6_ZerocopyAcceptsExactly ==
  (Zerocopy /\ chroma_sampling # "Cs400") =>
    /\ outcome \in {"ok", "panic"}
    /\ outcome = "ok" <=>
         /\ data[1] = LumaBytes
         /\ data[2] = ChromaBytes
         /\ data[3] = ChromaBytes

\* C7: under Cs400 new_zerocopy succeeds whenever the luma length matches,
\* whatever the chroma buffer lengths; planes 1 and 2 are zero-size
\* placeholders with zero decimation and padding that alias no buffer.
C7_MonoIgnoresChroma ==
  (Zerocopy /\ chroma_sampling = "Cs400" /\ data[1] = LumaBytes) =>
    /\ outcome = "ok"
    /\ \A i \in {2, 3} :
         /\ Geometry(planes[i]) = <<0, 0, 0, 0, 0, 0>>
         /\ ~planes[i].borrowed

C7_Witness ==
  /\ Zerocopy /\ chroma_sampling = "Cs400" /\ outcome = "ok"
  /\ width = 2 /\ height = 2 /\ sample_size = 1
  /\ data = <<4, 3, 0>>
  /\ ~planes[2].borrowed

\* C8: every Frame returned by either constructor has planes 1 and 2 with
\* identical width, height, decimation and padding.
C8_ChromaSymmetric ==
  outcome = "ok" => Geometry(planes[2]) = Geometry(planes[3])

C8_Witness ==
  /\ Zerocopy /\ outcome = "ok" /\ chroma_sampling = "Cs422"
  /\ width = 2 /\ height = 2 /\ sample_size = 1
  /\ planes[2].width = 1 /\ planes[3].height = 2

\* C9: the size checks of new_zerocopy accept a buffer only when its length
\* is the unbounded product width * height * sample_bytes, never when it only
\* equals that product modulo 2^w.
C9_NoWrappedAccept ==
  (Zerocopy /\ outcome = "ok") =>
    /\ data[1] = LumaBytes
    /\ chroma_sampling # "Cs400" =>
         (data[2] = ChromaBytes /\ data[3] = ChromaBytes)

\* C10: each plane new_zerocopy wraps around a caller buffer covers exactly
\* that buffer: samples in the plane's storage times sample_bytes equals the
\* buffer's byte length.
C10_PlaneCoversBuffer ==
  (Zerocopy /\ outcome = "ok") =>
    \A i \in 1..3 :
      planes[i].borrowed => planes[i].slice_len * sample_size = data[i]

====
